---- MODULE Spec2Model ----
(***************************************************************************)
(* Model of the MCP MySQL adapter in src/src/server.py: the tool handler   *)
(* call_tool and the connection factory get_mysql_connection.              *)
(*                                                                         *)
(* One invocation of call_tool is a process that walks through the         *)
(* handler one driver call at a time.  The MySQL driver and the database   *)
(* are the environment: every driver call (connect, cursor, execute,       *)
(* fetchall, commit, cursor.close, conn.close) either succeeds or raises.  *)
(* Strings are tuples of one-character strings so that strip, upper and    *)
(* startswith are computed, not assumed.                                   *)
(***************************************************************************)
EXTENDS Integers, Sequences, FiniteSets, TLC

\* ------------------------------------------------------------------ bounds

\* Number of handler slots that may run call_tool side by side.
NProcs == 2
\* Total number of invocations delivered by the transport.
MaxInv == 2
\* Largest row count / affected-row count the database reports.
MaxRows == 1

Procs == 1..NProcs

\* A database session is named by the handler slot that opened it and a serial
\* number, so its name does not depend on the order in which handlers connect.
ConnIds == Procs \X (1..MaxInv)
NoConn == <<0, 0>>

\* ------------------------------------------------------- python str helpers

Whitespace == {" ", "\t", "\n"}

LowerLetters == <<"a", "b", "c", "d", "e", "l", "o", "p", "r", "s", "t", "u", "w", "x">>
UpperLetters == <<"A", "B", "C", "D", "E", "L", "O", "P", "R", "S", "T", "U", "W", "X">>

\* str.upper() on one character.
UpperChar(c) ==
    IF \E k \in 1..Len(LowerLetters) : LowerLetters[k] = c
    THEN UpperLetters[CHOOSE k \in 1..Len(LowerLetters) : LowerLetters[k] = c]
    ELSE c

\* str.upper()
upper(s) == [k \in 1..Len(s) |-> UpperChar(s[k])]

RECURSIVE lstrip(_)
lstrip(s) == IF s # <<>> /\ Head(s) \in Whitespace THEN lstrip(Tail(s)) ELSE s

RECURSIVE rstrip(_)
rstrip(s) ==
    IF s # <<>> /\ s[Len(s)] \in Whitespace THEN rstrip(SubSeq(s, 1, Len(s) - 1)) ELSE s

\* str.strip()
strip(s) == rstrip(lstrip(s))

\* str.startswith(prefix)
startswith(s, prefix) ==
    /\ Len(s) >= Len(prefix)
    /\ SubSeq(s, 1, Len(prefix)) = prefix

SELECT == <<"S", "E", "L", "E", "C", "T">>
SHOW_TABLES == <<"S", "H", "O", "W", " ", "T", "A", "B", "L", "E", "S">>
DESCRIBE_ == <<"D", "E", "S", "C", "R", "I", "B", "E", " ">>

\* query.strip().upper().startswith("SELECT")
IsSelectStmt(query) == startswith(upper(strip(query)), SELECT)

\* f"DESCRIBE {table_name}"
DescribeStmt(table_name) == DESCRIBE_ \o table_name

\* ------------------------------------------------------------------ inputs

ToolNames == {"execute_query", "list_tables", "describe_table"}

NoArgs == <<>>
QueryArg(q) == [k \in {"query"} |-> q]
TableArg(t) == [k \in {"table_name"} |-> t]

Queries ==
    { <<"S", "E", "L", "E", "C", "T", " ", "1">>,
      <<" ", "s", "e", "l", "e", "c", "t", " ", "1", "\n">>,
      <<"S", "e", "L", "e", "c", "T", " ", "x">>,
      <<"S", "E", "L", "E", "C">>,
      <<"(", "S", "E", "L", "E", "C", "T", " ", "1", ")">>,
      <<"S", "H", "O", "W", " ", "T", "A", "B", "L", "E", "S">>,
      <<"D", "R", "O", "P", " ", "T", "A", "B", "L", "E", " ", "x">>,
      <<"\t", "u", "p", "d", "a", "t", "e", " ", "t">>,
      <<" ", " ">>,
      <<>> }

TableNames ==
    { <<"t", "1">>,
      <<"a", "_", "B">>,
      <<"t", ";", "D", "R", "O", "P", " ", "x">>,
      <<"t", "-", "1">>,
      <<>> }

Invocation(n, a) == [name |-> n, arguments |-> a]

\* What the transport may deliver: any tool name with any argument mapping.
Invocations ==
    {Invocation("execute_query", a) : a \in {NoArgs} \cup {QueryArg(q) : q \in Queries}}
    \cup {Invocation("list_tables", NoArgs)}
    \cup {Invocation("describe_table", a) :
            a \in {NoArgs} \cup {TableArg(t) : t \in TableNames}}
    \cup {Invocation("drop_database", NoArgs)}

\* The invocations delivered while handlers run side by side.
ConcInvocations ==
    { Invocation("execute_query", QueryArg(<<"D", "R", "O", "P", " ", "T", "A", "B", "L", "E", " ", "x">>)),
      Invocation("list_tables", NoArgs) }

\* Error texts str(e) of the exceptions cursor.execute raises: the database
\* rejects the statement, or the session is lost.
DriverErrors == {"1051 Unknown table", "2013 Lost connection"}

\* Error texts of the exceptions fetchall and commit raise once the statement
\* has been accepted.
SessionErrors == {"2013 Lost connection"}

\* The exception classes that leave the handler: nothing in call_tool reads
\* their message.
DriverError == "mysql.connector.Error"
KeyError == "KeyError"

\* ------------------------------------------------------------------- state

VARIABLES
    pc,         \* position of each handler slot inside call_tool
    name,       \* parameter name
    arguments,  \* parameter arguments
    conn,       \* local conn: the session it names, NoConn while unbound
    cursor,     \* local cursor: the session it runs on, NoConn while unbound
    stmt,       \* the statement handed to cursor.execute
    rowcount,   \* the count the database reported for the statement (rows affected,
                \* or rows of the result set fetchall returns), -1 before any execute
    ret,        \* the value of the return statement that ran, NoRet if none
    exc,        \* the exception in flight, "none" if none
    trace,      \* database events of the invocation, in order
    opened,     \* connection ids the server has opened so far
    closes,     \* per connection id, how many times close() completed
    started     \* invocations delivered so far

vars == <<pc, name, arguments, conn, cursor, stmt, rowcount, ret, exc, trace,
          opened, closes, started>>

locals == <<name, arguments, conn, cursor, stmt, rowcount, ret, exc, trace>>

\* ----------------------------------------------------------------- results

TextContent(kind, text, ident, n) == [kind |-> kind, text |-> text, ident |-> ident, n |-> n]

NoRet == TextContent("none", "", <<>>, 0)

\* One call into the driver: the connection it ran on, the statement, whether
\* it succeeded, the count the database reported and str(e) when it raised.
Event(op, c, s, ok, n, err) ==
    [op |-> op, conn |-> c, stmt |-> s, ok |-> ok, n |-> n, err |-> err]

\* "Query executed successfully. No results returned." / str(results)
SelectResult(nrows) ==
    IF nrows = 0
    THEN TextContent("Query executed successfully. No results returned.", "", <<>>, 0)
    ELSE TextContent("rows", "", <<>>, nrows)

\* f"Query executed successfully. Affected rows: {cursor.rowcount}"
AffectedResult(rc) == TextContent("Query executed successfully. Affected rows:", "", <<>>, rc)

\* f"Tables in database:\n{', '.join(table_list)}"
TablesResult(nrows) == TextContent("Tables in database:", "", <<>>, nrows)

\* "Table structure for {table_name}:\n" followed by one line per column
DescribeResult(table_name, nrows) == TextContent("Table structure for", "", table_name, nrows)

\* The text of the except clause of each tool: f"Error ...: {str(e)}"
ErrorResult(n, e) ==
    CASE n = "execute_query" -> TextContent("Error executing query:", e, <<>>, 0)
      [] n = "list_tables" -> TextContent("Error listing tables:", e, <<>>, 0)
      [] OTHER -> TextContent("Error describing table:", e, <<>>, 0)

\* f"Unknown tool: {name}"
UnknownToolResult(n) == TextContent("Unknown tool:", n, <<>>, 0)

\* ---------------------------------------------------------------- handlers

Init ==
    /\ pc = [i \in Procs |-> "idle"]
    /\ name = [i \in Procs |-> ""]
    /\ arguments = [i \in Procs |-> NoArgs]
    /\ conn = [i \in Procs |-> NoConn]
    /\ cursor = [i \in Procs |-> NoConn]
    /\ stmt = [i \in Procs |-> <<>>]
    /\ rowcount = [i \in Procs |-> -1]
    /\ ret = [i \in Procs |-> NoRet]
    /\ exc = [i \in Procs |-> "none"]
    /\ trace = [i \in Procs |-> <<>>]
    /\ opened = {}
    /\ closes = [c \in ConnIds |-> 0]
    /\ started = 0

\* A connection factory that hands out one cached session to every caller.
get_cached_connection(open, caller) == <<1, 1>>

\* mysql.connector.connect(...): every call opens a new session.
get_mysql_connection(open, caller) ==
    <<caller, 1 + Cardinality({c \in open : c[1] = caller})>>

\* The else branch chosen by query.startswith("SELECT"), without strip().upper().
NeedsCommitRawPrefix(n, query) == n = "execute_query" /\ ~startswith(query, SELECT)

\* The branch taken after a successful cursor.execute: fetchall for the
\* SELECT branch of execute_query and for list_tables and describe_table,
\* conn.commit() for the else branch of execute_query.
NeedsCommit(n, query) == n = "execute_query" /\ ~IsSelectStmt(query)

\* The transport delivers an invocation to an idle handler slot.
Deliver(i, inv) ==
    /\ pc[i] = "idle"
    /\ started < MaxInv
    /\ started' = started + 1
    /\ name' = [name EXCEPT ![i] = inv.name]
    /\ arguments' = [arguments EXCEPT ![i] = inv.arguments]
    /\ pc' = [pc EXCEPT ![i] = "connect"]
    /\ UNCHANGED <<conn, cursor, stmt, rowcount, ret, exc, trace, opened, closes>>

\* call_tool has no await: on the event loop an invocation starts only when
\* no other one is inside the handler.
Call(i) ==
    /\ \A j \in Procs : pc[j] = "idle"
    /\ \E inv \in Invocations : Deliver(i, inv)

\* Invocations served side by side (the transport running handlers in parallel).
CallConc(i) == \E inv \in ConcInvocations : Deliver(i, inv)

\* conn = self.get_mysql_connection()
Connect(i) ==
    /\ pc[i] = "connect"
    /\ \E ok \in BOOLEAN :
        IF ok
        THEN LET c == get_mysql_connection(opened, i) IN
             /\ conn' = [conn EXCEPT ![i] = c]
             /\ opened' = opened \cup {c}
             /\ trace' = [trace EXCEPT ![i] = Append(@, Event("acquire", c, <<>>, TRUE, 0, ""))]
             /\ pc' = [pc EXCEPT ![i] = "cursor"]
             /\ UNCHANGED exc
        ELSE /\ exc' = [exc EXCEPT ![i] = DriverError]
             /\ pc' = [pc EXCEPT ![i] = "done"]
             /\ UNCHANGED <<conn, opened, trace>>
    /\ UNCHANGED <<name, arguments, cursor, stmt, rowcount, ret, closes, started>>

\* cursor = conn.cursor(dictionary=True), before the try block
Cursor(i) ==
    /\ pc[i] = "cursor"
    /\ \E ok \in BOOLEAN :
        IF ok
        THEN /\ cursor' = [cursor EXCEPT ![i] = conn[i]]
             /\ pc' = [pc EXCEPT ![i] = "dispatch"]
             /\ UNCHANGED exc
        ELSE /\ exc' = [exc EXCEPT ![i] = DriverError]
             /\ pc' = [pc EXCEPT ![i] = "done"]
             /\ UNCHANGED cursor
    /\ UNCHANGED <<name, arguments, conn, stmt, rowcount, ret, trace, opened, closes, started>>

\* The if / elif / else on name, with the argument lookups outside the inner try.
Dispatch(i) ==
    /\ pc[i] = "dispatch"
    /\ CASE name[i] = "execute_query" ->
              IF "query" \in DOMAIN arguments[i]
              THEN /\ stmt' = [stmt EXCEPT ![i] = arguments[i]["query"]]
                   /\ pc' = [pc EXCEPT ![i] = "execute"]
                   /\ UNCHANGED <<ret, exc>>
              ELSE /\ exc' = [exc EXCEPT ![i] = KeyError]
                   /\ pc' = [pc EXCEPT ![i] = "cursor_close"]
                   /\ UNCHANGED <<ret, stmt>>
         [] name[i] = "list_tables" ->
              /\ stmt' = [stmt EXCEPT ![i] = SHOW_TABLES]
              /\ pc' = [pc EXCEPT ![i] = "execute"]
              /\ UNCHANGED <<ret, exc>>
         [] name[i] = "describe_table" ->
              IF "table_name" \in DOMAIN arguments[i]
              THEN /\ stmt' = [stmt EXCEPT ![i] = DescribeStmt(arguments[i]["table_name"])]
                   /\ pc' = [pc EXCEPT ![i] = "execute"]
                   /\ UNCHANGED <<ret, exc>>
              ELSE /\ exc' = [exc EXCEPT ![i] = KeyError]
                   /\ pc' = [pc EXCEPT ![i] = "cursor_close"]
                   /\ UNCHANGED <<ret, stmt>>
         [] OTHER ->
              /\ ret' = [ret EXCEPT ![i] = UnknownToolResult(name[i])]
              /\ pc' = [pc EXCEPT ![i] = "cursor_close"]
              /\ UNCHANGED <<stmt, exc>>
    /\ UNCHANGED <<name, arguments, conn, cursor, rowcount, trace, opened, closes, started>>

\* cursor.execute(...) inside the tool's try / except Exception
Execute(i) ==
    /\ pc[i] = "execute"
    /\ \/ \E n \in 0..MaxRows :
            /\ trace' = [trace EXCEPT ![i] = Append(@, Event("execute", cursor[i], stmt[i], TRUE, n, ""))]
            /\ rowcount' = [rowcount EXCEPT ![i] = n]
            /\ pc' = [pc EXCEPT ![i] =
                        IF NeedsCommit(name[i], stmt[i]) THEN "commit" ELSE "fetchall"]
            /\ UNCHANGED ret
       \/ \E e \in DriverErrors :
            /\ trace' = [trace EXCEPT ![i] = Append(@, Event("execute", cursor[i], stmt[i], FALSE, 0, e))]
            /\ ret' = [ret EXCEPT ![i] = ErrorResult(name[i], e)]
            /\ pc' = [pc EXCEPT ![i] = "cursor_close"]
            /\ UNCHANGED rowcount
    /\ UNCHANGED <<name, arguments, conn, cursor, stmt, exc, opened, closes, started>>

\* cursor.fetchall() and the formatting of the rows, inside the tool's try
Fetchall(i) ==
    /\ pc[i] = "fetchall"
    /\ \/ /\ trace' = [trace EXCEPT ![i] =
                        Append(@, Event("fetchall", cursor[i], <<>>, TRUE, rowcount[i], ""))]
          /\ ret' = [ret EXCEPT ![i] =
                    CASE name[i] = "execute_query" -> SelectResult(rowcount[i])
                      [] name[i] = "list_tables" -> TablesResult(rowcount[i])
                      [] OTHER -> DescribeResult(arguments[i]["table_name"], rowcount[i])]
       \/ \E e \in SessionErrors :
          /\ trace' = [trace EXCEPT ![i] = Append(@, Event("fetchall", cursor[i], <<>>, FALSE, 0, e))]
          /\ ret' = [ret EXCEPT ![i] = ErrorResult(name[i], e)]
    /\ pc' = [pc EXCEPT ![i] = "cursor_close"]
    /\ UNCHANGED <<name, arguments, conn, cursor, stmt, rowcount, exc, opened, closes, started>>

\* conn.commit() and the affected-rows text, inside execute_query's try
Commit(i) ==
    /\ pc[i] = "commit"
    /\ \/ /\ trace' = [trace EXCEPT ![i] = Append(@, Event("commit", conn[i], <<>>, TRUE, 0, ""))]
          /\ ret' = [ret EXCEPT ![i] = AffectedResult(rowcount[i])]
       \/ \E e \in SessionErrors :
          /\ trace' = [trace EXCEPT ![i] = Append(@, Event("commit", conn[i], <<>>, FALSE, 0, e))]
          /\ ret' = [ret EXCEPT ![i] = ErrorResult(name[i], e)]
    /\ pc' = [pc EXCEPT ![i] = "cursor_close"]
    /\ UNCHANGED <<name, arguments, conn, cursor, stmt, rowcount, exc, opened, closes, started>>

\* finally: cursor.close().  An exception raised here replaces the pending
\* return value or exception and skips conn.close().
CursorClose(i) ==
    /\ pc[i] = "cursor_close"
    /\ \/ /\ pc' = [pc EXCEPT ![i] = "conn_close"]
          /\ UNCHANGED <<ret, exc>>
       \/ /\ exc' = [exc EXCEPT ![i] = DriverError]
          /\ ret' = [ret EXCEPT ![i] = NoRet]
          /\ pc' = [pc EXCEPT ![i] = "done"]
    /\ UNCHANGED <<name, arguments, conn, cursor, stmt, rowcount, trace, opened, closes, started>>

\* finally: conn.close().  When it raises, close() did not complete.
ConnClose(i) ==
    /\ pc[i] = "conn_close"
    /\ \/ /\ trace' = [trace EXCEPT ![i] = Append(@, Event("close", conn[i], <<>>, TRUE, 0, ""))]
          /\ closes' = [closes EXCEPT ![conn[i]] = @ + 1]
          /\ UNCHANGED <<ret, exc>>
       \/ /\ trace' = [trace EXCEPT ![i] = Append(@, Event("close", conn[i], <<>>, FALSE, 0, DriverError))]
          /\ UNCHANGED closes
          /\ exc' = [exc EXCEPT ![i] = DriverError]
          /\ ret' = [ret EXCEPT ![i] = NoRet]
    /\ pc' = [pc EXCEPT ![i] = "done"]
    /\ UNCHANGED <<name, arguments, conn, cursor, stmt, rowcount, opened, started>>

\* The frame of a finished invocation is dropped; the slot is idle again.
Reset(i) ==
    /\ pc[i] = "done"
    /\ pc' = [pc EXCEPT ![i] = "idle"]
    /\ name' = [name EXCEPT ![i] = ""]
    /\ arguments' = [arguments EXCEPT ![i] = NoArgs]
    /\ conn' = [conn EXCEPT ![i] = NoConn]
    /\ cursor' = [cursor EXCEPT ![i] = NoConn]
    /\ stmt' = [stmt EXCEPT ![i] = <<>>]
    /\ rowcount' = [rowcount EXCEPT ![i] = -1]
    /\ ret' = [ret EXCEPT ![i] = NoRet]
    /\ exc' = [exc EXCEPT ![i] = "none"]
    /\ trace' = [trace EXCEPT ![i] = <<>>]
    /\ UNCHANGED <<opened, closes, started>>

\* The body of call_tool after delivery.
Body(i) ==
    \/ Connect(i)
    \/ Cursor(i)
    \/ Dispatch(i)
    \/ Execute(i)
    \/ Fetchall(i)
    \/ Commit(i)
    \/ CursorClose(i)
    \/ ConnClose(i)

\* The server as the event loop runs it: one invocation after the other.
Next == \E i \in Procs : Call(i) \/ Body(i) \/ Reset(i)

Spec == Init /\ [][Next]_vars

\* Handlers running side by side, each frame kept once its invocation ended.
NextConc == \E i \in Procs : CallConc(i) \/ Body(i)

SpecConc == Init /\ [][NextConc]_vars

\* ------------------------------------------------------------------ claims

Done(i) == pc[i] = "done"
Returned(i) == Done(i) /\ exc[i] = "none"
Raised(i) == Done(i) /\ exc[i] # "none"

\* Positions of the events of one kind in the invocation's trace.
Ops(i, op) == {k \in DOMAIN trace[i] : trace[i][k].op = op}

OpSeq(i) == [k \in DOMAIN trace[i] |-> trace[i][k].op]

SuccessKinds ==
    { "Query executed successfully. No results returned.", "rows",
      "Query executed successfully. Affected rows:", "Tables in database:",
      "Table structure for" }

FailureKinds ==
    { "Error executing query:", "Error listing tables:", "Error describing table:",
      "Unknown tool:", "ValidationError" }

IsSuccess(r) == r.kind \in SuccessKinds
IsFailure(r) == r.kind \in FailureKinds

\* The claims' reading of "classified as SELECT": after the leading
\* whitespace the statement starts with the letters s-e-l-e-c-t in any case.
SelectLower == <<"s", "e", "l", "e", "c", "t">>
ClassifiedSelect(q) ==
    \E k \in 1..Len(q) :
        /\ \A j \in 1..(k - 1) : q[j] \in Whitespace
        /\ k + 5 <= Len(q)
        /\ \A j \in 1..6 : q[k + j - 1] \in {SELECT[j], SelectLower[j]}

\* [A-Za-z0-9_]
AllowedChars ==
    { "a", "b", "c", "d", "e", "f", "g", "h", "i", "j", "k", "l", "m", "n", "o", "p",
      "q", "r", "s", "t", "u", "v", "w", "x", "y", "z",
      "A", "B", "C", "D", "E", "F", "G", "H", "I", "J", "K", "L", "M", "N", "O", "P",
      "Q", "R", "S", "T", "U", "V", "W", "X", "Y", "Z",
      "0", "1", "2", "3", "4", "5", "6", "7", "8", "9", "_" }

HasDisallowedChar(t) == \E k \in 1..Len(t) : t[k] \notin AllowedChars

\* C1: when an invocation has ended, the connection it acquired has been
\* closed exactly once (never zero times, never twice).
C1_ReleasedExactlyOnce ==
    \A i \in Procs : (Done(i) /\ conn[i] # NoConn) => closes[conn[i]] = 1

\* C2: every invocation ends by returning a well-formed Success or Failure
\* text result; no exception leaves call_tool.
C2_NoExceptionEscapes ==
    \A i \in Procs : Done(i) => (exc[i] = "none" /\ (IsSuccess(ret[i]) \/ IsFailure(ret[i])))

\* C3: an invocation of an unregistered tool name returns the unknown-tool
\* Failure, and during it no connection is acquired and no statement issued.
C3_UnknownToolNoConnection ==
    \A i \in Procs :
        (Done(i) /\ name[i] \notin ToolNames) =>
            /\ Returned(i)
            /\ ret[i] = UnknownToolResult(name[i])
            /\ Ops(i, "acquire") = {}
            /\ Ops(i, "execute") = {}

\* C4: describe_table with a table_name holding a character outside
\* [A-Za-z0-9_] returns a ValidationError Failure and issues no statement.
C4_DescribeRejectsDisallowedName ==
    \A i \in Procs :
        ( /\ Done(i)
          /\ name[i] = "describe_table"
          /\ "table_name" \in DOMAIN arguments[i]
          /\ HasDisallowedChar(arguments[i]["table_name"]) ) =>
            /\ Returned(i)
            /\ ret[i].kind = "ValidationError"
            /\ Ops(i, "execute") = {}

\* C5: execute_query without `query`, or with a query that is empty after
\* trimming, returns a ValidationError Failure and sends no statement.
C5_EmptyQueryRejected ==
    \A i \in Procs :
        ( /\ Done(i)
          /\ name[i] = "execute_query"
          /\ \/ "query" \notin DOMAIN arguments[i]
             \/ \A k \in DOMAIN arguments[i]["query"] :
                    arguments[i]["query"][k] \in Whitespace ) =>
            /\ Returned(i)
            /\ ret[i].kind = "ValidationError"
            /\ Ops(i, "execute") = {}

\* C6: when the database fails the statement of an execute_query invocation,
\* the invocation returns the Failure carrying the driver's error text, no
\* exception leaves it, and its connection is released.
C6_StatementFailureReported ==
    \A i \in Procs :
        \A k \in Ops(i, "execute") :
            (Done(i) /\ name[i] = "execute_query" /\ ~trace[i][k].ok) =>
                /\ Returned(i)
                /\ ret[i] = TextContent("Error executing query:", trace[i][k].err, <<>>, 0)
                /\ closes[conn[i]] = 1

\* C7: an execute_query invocation whose statement is not classified as
\* SELECT and whose execution (statement and commit) the database does not
\* fail has committed and returns Success with exactly the affected-row count
\* the database reported for the statement.
C7_WriteCommitsAndReportsCount ==
    \A i \in Procs :
        \A k \in Ops(i, "execute") :
            ( /\ Done(i)
              /\ name[i] = "execute_query"
              /\ ~ClassifiedSelect(trace[i][k].stmt)
              /\ trace[i][k].ok
              /\ \A c \in Ops(i, "commit") : trace[i][c].ok ) =>
                /\ Ops(i, "commit") # {}
                /\ Returned(i)
                /\ ret[i] = TextContent("Query executed successfully. Affected rows:",
                                        "", <<>>, trace[i][k].n)

\* C8: an execute_query invocation whose statement is classified as SELECT and
\* returns zero rows ends with the no-results Success, and list_tables on a
\* database without tables ends with a Success as well.
C8_EmptyResultIsSuccess ==
    \A i \in Procs :
        \A k \in Ops(i, "fetchall") :
            (Done(i) /\ trace[i][k].ok /\ trace[i][k].n = 0) =>
                /\ (name[i] = "execute_query" /\ ClassifiedSelect(stmt[i])) =>
                        /\ Returned(i)
                        /\ ret[i].kind = "Query executed successfully. No results returned."
                /\ name[i] = "list_tables" => (Returned(i) /\ IsSuccess(ret[i]))

\* C9: no invocation acquires more than one connection, every statement,
\* fetch, commit and close of an invocation runs on the connection that
\* invocation acquired, and two invocations never hold the same connection.
C9_ExclusiveConnections ==
    /\ \A i \in Procs :
        /\ Cardinality(Ops(i, "acquire")) <= 1
        /\ cursor[i] \in {NoConn, conn[i]}
        /\ \A k \in DOMAIN trace[i] : conn[i] # NoConn /\ trace[i][k].conn = conn[i]
    /\ \A i, j \in Procs :
        (i # j /\ conn[i] # NoConn /\ conn[j] # NoConn) => conn[i] # conn[j]

\* Two invocations are inside the handler at once, each has executed its
\* statement on its connection, and one of them has committed.
C9_Witness ==
    \E i, j \in Procs :
        /\ i # j
        /\ pc[i] = "cursor_close" /\ Ops(i, "commit") # {}
        /\ pc[j] = "fetchall" /\ Ops(j, "execute") # {}

\* Position of a database event in the order acquire, statement, commit, release.
Rank(op) ==
    CASE op = "acquire" -> 1
      [] op = "execute" -> 2
      [] op = "fetchall" -> 3
      [] op = "commit" -> 3
      [] OTHER -> 4

\* C10: within one invocation the database events come in the order acquire,
\* at most one statement execution, at most one commit, release; a commit
\* follows only a successful execution of an execute_query statement that is
\* not classified as SELECT.
C10_EventOrder ==
    \A i \in Procs :
        /\ \A k \in DOMAIN trace[i] : (trace[i][k].op = "acquire") <=> (k = 1)
        /\ \A k, l \in DOMAIN trace[i] :
                k < l => Rank(trace[i][k].op) < Rank(trace[i][l].op)
        /\ \A c \in Ops(i, "commit") :
                /\ name[i] = "execute_query"
                /\ "query" \in DOMAIN arguments[i]
                /\ ~ClassifiedSelect(arguments[i]["query"])
                /\ \E k \in Ops(i, "execute") :
                        k < c /\ trace[i][k].ok /\ trace[i][k].stmt = arguments[i]["query"]

\* An invocation went through acquire, execute, commit and release, for a
\* statement that needs trimming and case folding to be classified.
C10_Witness ==
    \E i \in Procs :
        /\ OpSeq(i) = <<"acquire", "execute", "commit", "close">>
        /\ strip(stmt[i]) # <<>>
        /\ stmt[i][1] \in Whitespace
        /\ upper(stmt[i]) # stmt[i]

====
